---- MODULE Spec2Model ----
(***************************************************************************)
(* Model of io.go of minio-go: objectReadSeeker (Read, Seek, Size), the     *)
(* lazy seekable stream over getObject / headObject.                        *)
(*                                                                          *)
(* The program state is the fields of one objectReadSeeker instance, the    *)
(* state of the byte source its reader field points at, and the position of *)
(* every caller goroutine inside Read, Seek or Size.  History variables     *)
(* (fetchLog, closes, heads, last, sk, got, eofs, clean) record what        *)
(* the callers and the transport observed.                                  *)
(*                                                                          *)
(* The second part models tempFile: newTempFile, cleanupStaleTempfiles and  *)
(* tempFile.Close over the entries of the platform temp directory.          *)
(***************************************************************************)
EXTENDS Integers, Sequences, FiniteSets

\* ---- bounds ----
MaxLen == 2          \* longest object content
MaxBuf == 2          \* longest caller buffer passed to Read
MaxCalls == 3        \* calls issued on the instance over one behaviour
NumCallers == 2      \* goroutines sharing the instance
MaxName == 2         \* longest file name in the temp directory
MaxStale == 2        \* most entries the temp directory starts with
MaxStuck == 1        \* most paths whose removal fails at one time
MaxSweeps == 1       \* sweeps of a process that only sweeps

Callers == 1..NumCallers
NoCaller == 0
Nil == 0             \* reader == nil

\* whence values of io.Seeker
SeekStart == 0
SeekCurrent == 1
SeekEnd == 2
Whences == {SeekStart, SeekCurrent, SeekEnd}

\* The code never looks at a byte's value, so an object is given by its length;
\* its i-th byte is i, which makes every position distinguishable.
Contents == {[i \in 1..n |-> i] : n \in 0..MaxLen}
SeekOffsets == -1..MaxLen
BufLens == 0..MaxBuf

VARIABLES
  content,   \* the remote object's bytes
  mutex,     \* r.mutex: NoCaller when free, else the holder
  reader,    \* r.reader: Nil or the id of the handle getObject returned
  isRead,    \* r.isRead
  stat,      \* r.stat.Size
  offset,    \* r.offset
  src,       \* the byte source behind r.reader: [pos, open]
  pc,        \* per caller: "idle", "Read", "Seek", "SizeHead", "SizeRet"
  loc,       \* per caller: arguments and locals of the call in progress
  calls,     \* number of calls issued so far
  dropped,   \* the callers have let go of the instance and call no more
  fetchLog,  \* getObject calls so far: sequence of [off, ok]
  heads,     \* headObject calls so far
  closes,    \* r.reader.Close() calls so far
  last,      \* result of the call that returned most recently: [op, n, err] and
             \* sn, the count the byte source answered inside a Read
  sk,        \* whether a Seek has returned, and the arguments of the latest
  got,       \* bytes returned by Read since the most recent Seek (or creation)
  eofs,      \* io.EOF results returned by Read since the most recent Seek
  clean,     \* no transport fault was injected since the most recent Seek
  tdir,      \* names of the entries of os.TempDir()
  tmp,       \* os.TempDir() itself exists
  stuck,     \* paths whose os.Remove fails for now (permissions, busy, ...)
  tf,        \* the tempFiles created so far: sequence of records, see NewFile
  tpc,       \* per caller inside tempFile.Close: "idle", "Wait", "Close", "Remove"
  tloc,      \* per caller: the index in tf of the tempFile being closed
  tcalls,    \* calls of the three tempFile operations issued so far
  tlast      \* result of the tempFile operation that returned most recently

svars == <<content, mutex, reader, isRead, stat, offset, src, pc, loc, calls, dropped,
           fetchLog, heads, closes, last, sk, got, eofs, clean>>
tvars == <<tdir, tmp, stuck, tf, tpc, tloc, tcalls, tlast>>
vars == <<svars, tvars>>

stream == <<reader, isRead, offset>>
hist == <<sk, got, eofs, clean>>

Min(a, b) == IF a < b THEN a ELSE b

\* successful getObject calls so far
Opens == Cardinality({i \in DOMAIN fetchLog : fetchLog[i].ok})

NoLoc == [len |-> 0, off |-> 0, whence |-> 0, err |-> "nil"]
NoResult == [op |-> "none", n |-> 0, err |-> "nil", sn |-> 0]
NoTempResult == [op |-> "none", id |-> 0, prefix |-> <<>>, err |-> "nil", log |-> <<>>]

\* no tempFile exists and the temp directory is empty
TempIdle ==
  /\ tdir = {}
  /\ tmp = TRUE
  /\ stuck = {}
  /\ tf = <<>>
  /\ tpc = [c \in Callers |-> "idle"]
  /\ tloc = [c \in Callers |-> 0]
  /\ tcalls = 0
  /\ tlast = NoTempResult

\* newObjectReadSeeker: reader nil, isRead false, offset 0, no network call.
Init ==
  /\ content \in Contents
  /\ mutex = NoCaller
  /\ reader = Nil
  /\ isRead = FALSE
  /\ stat = 0
  /\ offset = 0
  /\ src = [pos |-> 0, open |-> FALSE]
  /\ pc = [c \in Callers |-> "idle"]
  /\ loc = [c \in Callers |-> NoLoc]
  /\ calls = 0
  /\ dropped = FALSE
  /\ fetchLog = <<>>
  /\ heads = 0
  /\ closes = 0
  /\ last = NoResult
  /\ sk = [any |-> FALSE, off |-> 0, whence |-> SeekStart]
  /\ got = <<>>
  /\ eofs = 0
  /\ clean = TRUE
  /\ TempIdle

\* ---- the consumed capabilities: getObject, the byte source, headObject ----

\* r.api.getObject(bucket, object, off, 0): the transport may fail; otherwise
\* the byte source yields the bytes from off to the end of the object.
GetObject(off) ==
  {[ok |-> FALSE, pos |-> 0]} \cup
  (IF off \in 0..Len(content) THEN {[ok |-> TRUE, pos |-> off]} ELSE {})

\* r.reader.Read(p) with len(p) = len on the source s: the set of (n, err) the
\* source may answer.  An open source hands out between 1 and len of the
\* remaining bytes, reports io.EOF with the last bytes or on the call after
\* them, or fails with a transport error after copying some bytes.  What a
\* source answers after Close is up to the source: net/http's body fails with
\* "read on closed response body", an empty body keeps answering io.EOF.
SrcRead(s, len) ==
  IF ~s.open
  THEN {[n |-> 0, err |-> "EOF"], [n |-> 0, err |-> "err"]}
  ELSE LET rem == Len(content) - s.pos
           m == Min(len, rem)
       IN  {[n |-> k, err |-> "nil"] :
               k \in {j \in 0..m : (j = 0) = (len = 0)}}
           \cup {[n |-> k, err |-> "EOF"] :
               k \in {j \in 0..m : j = rem /\ ((j = 0) = (m = 0))}}
           \cup {[n |-> k, err |-> "err"] : k \in 0..m}

\* io.Copy(ioutil.Discard, r.reader); r.reader.Close()
DrainAndClose(s) ==
  [pos |-> IF s.open THEN Len(content) ELSE s.pos, open |-> FALSE]

\* r.api.headObject(bucket, object): the object's size, or a zero ObjectStat
\* with an error.
HeadObject ==
  {[size |-> Len(content), err |-> "nil"], [size |-> 0, err |-> "err"]}

\* ---- objectReadSeeker.Read ----

\* ReadResult with the count of a failed read passed on to the caller
ReadResult_KeepCount(o) ==
  IF o.err = "EOF" THEN [n |-> o.n, err |-> "EOF"]
  ELSE [n |-> o.n, err |-> o.err]

\* what Read returns for the source's answer o
ReadResult(o) ==
  IF o.err = "EOF" THEN [n |-> o.n, err |-> "EOF"]
  ELSE IF o.err # "nil" THEN [n |-> 0, err |-> o.err]
  ELSE [n |-> o.n, err |-> "nil"]

\* the bytes the caller received: the first n at the source's position
Delivered(s, n) == SubSeq(content, s.pos + 1, s.pos + n)

\* r.mutex.Lock() on entry of Read(p), len(p) = len
ReadLock(c, len) ==
  /\ pc[c] = "idle"
  /\ ~dropped
  /\ calls < MaxCalls
  /\ mutex = NoCaller
  /\ mutex' = c
  /\ pc' = [pc EXCEPT ![c] = "Read"]
  /\ loc' = [loc EXCEPT ![c] = [NoLoc EXCEPT !.len = len]]
  /\ calls' = calls + 1
  /\ UNCHANGED <<tvars, content, stream, stat, src, dropped, fetchLog, heads, closes, last, hist>>

\* ReadFetchFail with r.isRead set before the error of getObject is looked at
ReadFetchFail_FlagSet(c) ==
  /\ pc[c] = "Read"
  /\ ~isRead
  /\ [ok |-> FALSE, pos |-> 0] \in GetObject(offset)
  /\ fetchLog' = Append(fetchLog, [off |-> offset, ok |-> FALSE])
  /\ isRead' = TRUE
  /\ last' = [op |-> "Read", n |-> 0, err |-> "err", sn |-> 0]
  /\ clean' = FALSE
  /\ mutex' = NoCaller
  /\ pc' = [pc EXCEPT ![c] = "idle"]
  /\ loc' = [loc EXCEPT ![c] = NoLoc]
  /\ UNCHANGED <<tvars, content, reader, offset, stat, src, calls, dropped, heads, closes, sk, got, eofs>>

\* !r.isRead and getObject fails: return 0, err
ReadFetchFail(c) ==
  /\ pc[c] = "Read"
  /\ ~isRead
  /\ [ok |-> FALSE, pos |-> 0] \in GetObject(offset)
  /\ fetchLog' = Append(fetchLog, [off |-> offset, ok |-> FALSE])
  /\ last' = [op |-> "Read", n |-> 0, err |-> "err", sn |-> 0]
  /\ clean' = FALSE
  /\ mutex' = NoCaller
  /\ pc' = [pc EXCEPT ![c] = "idle"]
  /\ loc' = [loc EXCEPT ![c] = NoLoc]
  /\ UNCHANGED <<tvars, content, stream, stat, src, calls, dropped, heads, closes, sk, got, eofs>>

\* the rest of Read: the fetch if none was made yet, r.reader.Read(p), and on
\* io.EOF or an error the drain and the Close
ReadData(c) ==
  /\ pc[c] = "Read"
  /\ \E f \in (IF isRead THEN {[ok |-> TRUE, pos |-> src.pos]}
                         ELSE {g \in GetObject(offset) : g.ok}) :
       LET s0 == IF isRead THEN src ELSE [pos |-> f.pos, open |-> TRUE]
       IN  \E o \in SrcRead(s0, loc[c].len) :
             LET res == ReadResult(o)
             IN  /\ fetchLog' = IF isRead THEN fetchLog
                                ELSE Append(fetchLog, [off |-> offset, ok |-> TRUE])
                 /\ reader' = IF isRead THEN reader ELSE Opens + 1
                 /\ isRead' = TRUE
                 /\ src' = IF o.err = "nil"
                           THEN [s0 EXCEPT !.pos = s0.pos + o.n]
                           ELSE DrainAndClose(s0)
                 /\ closes' = IF o.err = "nil" THEN closes ELSE closes + 1
                 /\ last' = [op |-> "Read", n |-> res.n, err |-> res.err, sn |-> o.n]
                 /\ got' = got \o Delivered(s0, res.n)
                 /\ eofs' = IF res.err = "EOF" THEN eofs + 1 ELSE eofs
                 /\ clean' = (clean /\ ~(s0.open /\ o.err = "err"))
  /\ mutex' = NoCaller
  /\ pc' = [pc EXCEPT ![c] = "idle"]
  /\ loc' = [loc EXCEPT ![c] = NoLoc]
  /\ UNCHANGED <<tvars, content, stat, offset, calls, dropped, heads, sk>>

\* ---- objectReadSeeker.Seek ----

\* r.mutex.Lock() on entry of Seek(off, whence)
SeekLock(c, off, whence) ==
  /\ pc[c] = "idle"
  /\ ~dropped
  /\ calls < MaxCalls
  /\ mutex = NoCaller
  /\ mutex' = c
  /\ pc' = [pc EXCEPT ![c] = "Seek"]
  /\ loc' = [loc EXCEPT ![c] = [NoLoc EXCEPT !.off = off, !.whence = whence]]
  /\ calls' = calls + 1
  /\ UNCHANGED <<tvars, content, stream, stat, src, dropped, fetchLog, heads, closes, last, hist>>

\* SeekBody that starts the fetch at the new offset at once
SeekBody_Eager(c) ==
  /\ pc[c] = "Seek"
  /\ offset' = loc[c].off
  /\ fetchLog' = Append(fetchLog, [off |-> loc[c].off, ok |-> FALSE])
  /\ last' = [op |-> "Seek", n |-> loc[c].off, err |-> "nil", sn |-> 0]
  /\ sk' = [any |-> TRUE, off |-> loc[c].off, whence |-> loc[c].whence]
  /\ got' = <<>>
  /\ eofs' = 0
  /\ clean' = TRUE
  /\ mutex' = NoCaller
  /\ pc' = [pc EXCEPT ![c] = "idle"]
  /\ loc' = [loc EXCEPT ![c] = NoLoc]
  /\ UNCHANGED <<tvars, content, reader, isRead, stat, src, calls, dropped, heads, closes>>

\* SeekBody that clears r.isRead, so that the next Read fetches again
SeekBody_Reset(c) ==
  /\ pc[c] = "Seek"
  /\ offset' = loc[c].off
  /\ isRead' = FALSE
  /\ last' = [op |-> "Seek", n |-> loc[c].off, err |-> "nil", sn |-> 0]
  /\ sk' = [any |-> TRUE, off |-> loc[c].off, whence |-> loc[c].whence]
  /\ got' = <<>>
  /\ eofs' = 0
  /\ clean' = TRUE
  /\ mutex' = NoCaller
  /\ pc' = [pc EXCEPT ![c] = "idle"]
  /\ loc' = [loc EXCEPT ![c] = NoLoc]
  /\ UNCHANGED <<tvars, content, reader, stat, src, calls, dropped, fetchLog, heads, closes>>

\* r.offset = offset; return offset, nil (whence is not looked at)
SeekBody(c) ==
  /\ pc[c] = "Seek"
  /\ offset' = loc[c].off
  /\ last' = [op |-> "Seek", n |-> loc[c].off, err |-> "nil", sn |-> 0]
  /\ sk' = [any |-> TRUE, off |-> loc[c].off, whence |-> loc[c].whence]
  /\ got' = <<>>
  /\ eofs' = 0
  /\ clean' = TRUE
  /\ mutex' = NoCaller
  /\ pc' = [pc EXCEPT ![c] = "idle"]
  /\ loc' = [loc EXCEPT ![c] = NoLoc]
  /\ UNCHANGED <<tvars, content, reader, isRead, stat, src, calls, dropped, fetchLog, heads, closes>>

\* ---- objectReadSeeker.Size (takes no lock) ----

SizeCall(c) ==
  /\ pc[c] = "idle"
  /\ ~dropped
  /\ calls < MaxCalls
  /\ pc' = [pc EXCEPT ![c] = "SizeHead"]
  /\ calls' = calls + 1
  /\ UNCHANGED <<tvars, content, mutex, stream, stat, src, loc, dropped, fetchLog, heads,
                 closes, last, hist>>

\* SizeHead learning the size from a data fetch of the whole object
SizeHead_ByFetch(c) ==
  /\ pc[c] = "SizeHead"
  /\ \E h \in HeadObject :
       /\ stat' = h.size
       /\ loc' = [loc EXCEPT ![c] = [NoLoc EXCEPT !.err = h.err]]
       /\ fetchLog' = Append(fetchLog, [off |-> 0, ok |-> FALSE])
  /\ heads' = heads
  /\ pc' = [pc EXCEPT ![c] = "SizeRet"]
  /\ UNCHANGED <<tvars, content, mutex, stream, src, calls, dropped, closes, last, hist>>

\* objectSt, err := r.api.headObject(...); r.stat = objectSt
SizeHead(c) ==
  /\ pc[c] = "SizeHead"
  /\ \E h \in HeadObject :
       /\ stat' = h.size
       /\ loc' = [loc EXCEPT ![c] = [NoLoc EXCEPT !.err = h.err]]
  /\ heads' = heads + 1
  /\ pc' = [pc EXCEPT ![c] = "SizeRet"]
  /\ UNCHANGED <<tvars, content, mutex, stream, src, calls, dropped, fetchLog, closes, last, hist>>

\* return r.stat.Size, err
SizeRet(c) ==
  /\ pc[c] = "SizeRet"
  /\ last' = [op |-> "Size", n |-> stat, err |-> loc[c].err, sn |-> 0]
  /\ pc' = [pc EXCEPT ![c] = "idle"]
  /\ loc' = [loc EXCEPT ![c] = NoLoc]
  /\ UNCHANGED <<tvars, content, mutex, stream, stat, src, calls, dropped, fetchLog, heads,
                 closes, hist>>

\* the callers let go of the instance and never call it again:
\* objectReadSeeker has no Close method and no finalizer, so nothing runs
Abandon ==
  /\ \A c \in Callers : pc[c] = "idle"
  /\ ~dropped
  /\ dropped' = TRUE
  /\ UNCHANGED <<tvars, content, mutex, stream, stat, src, pc, loc, calls, fetchLog, heads,
                 closes, last, hist>>

Next ==
  \/ \E c \in Callers, len \in BufLens : ReadLock(c, len)
  \/ \E c \in Callers : ReadFetchFail(c)
  \/ \E c \in Callers : ReadData(c)
  \/ \E c \in Callers, off \in SeekOffsets, w \in Whences : SeekLock(c, off, w)
  \/ \E c \in Callers : SeekBody(c)
  \/ \E c \in Callers : SizeCall(c)
  \/ \E c \in Callers : SizeHead(c)
  \/ \E c \in Callers : SizeRet(c)
  \/ Abandon

Spec == Init /\ [][Next]_vars

TypeOK ==
  /\ content \in Contents
  /\ mutex \in Callers \cup {NoCaller}
  /\ reader \in 0..MaxCalls
  /\ isRead \in BOOLEAN
  /\ offset \in SeekOffsets
  /\ src.pos \in 0..Len(content) /\ src.open \in BOOLEAN
  /\ calls \in 0..MaxCalls
  /\ closes \in 0..MaxCalls

\* ---- tempFile: file names and filepath.Glob ----

\* The characters of a file name: the glob metacharacter "*" and a digit.
Chars == {"*", "0"}
Digits == {"0"}
\* byte value of a character, the order of sort.Strings
Ord(ch) == IF ch = "*" THEN 42 ELSE 48

NamesUpTo(n) == UNION {[1..k -> Chars] : k \in 1..n}
Names == NamesUpTo(MaxName)
Prefixes == {<<>>} \cup NamesUpTo(MaxName - 1)
\* filepath.Join(os.TempDir(), "") is the temp directory itself
TempDirPath == <<>>
StaleDirs == {d \in SUBSET Names : Cardinality(d) <= MaxStale}

\* ioutil.TempFile(dir, prefix): the names it may try, prefix followed by a
\* decimal number; a Go release that knows the "*" placeholder puts the number
\* in the place of the last "*" of the prefix instead.
TempNames(prefix) ==
  LET nums(n) == UNION {[1..k -> Digits] : k \in 1..n}
      stars == {k \in 1..Len(prefix) : prefix[k] = "*"}
      room == MaxName - Len(prefix)
  IN  {prefix \o d : d \in nums(room)}
      \cup (IF stars = {} THEN {}
            ELSE LET k == CHOOSE i \in stars : \A j \in stars : j <= i
                 IN  {SubSeq(prefix, 1, k - 1) \o d \o SubSeq(prefix, k + 1, Len(prefix)) :
                        d \in nums(room + 1)})

\* filepath.Match(pattern, name): "*" matches any run of characters, every
\* other character matches itself
RECURSIVE GlobMatch(_, _)
GlobMatch(pat, name) ==
  IF pat = <<>> THEN name = <<>>
  ELSE IF Head(pat) = "*"
       THEN GlobMatch(Tail(pat), name)
            \/ (name # <<>> /\ GlobMatch(pat, Tail(name)))
       ELSE /\ name # <<>>
            /\ Head(name) = Head(pat)
            /\ GlobMatch(Tail(pat), Tail(name))

\* a sorts before b in sort.Strings
Less(a, b) ==
  \E k \in 1..(Len(a) + 1) :
    /\ \A j \in 1..(k - 1) : j <= Len(b) /\ a[j] = b[j]
    /\ IF k > Len(a) THEN k <= Len(b)
       ELSE k <= Len(b) /\ Ord(a[k]) < Ord(b[k])

RECURSIVE SortSeq(_)
SortSeq(S) ==
  IF S = {} THEN <<>>
  ELSE LET first == CHOOSE x \in S : \A y \in S \ {x} : Less(x, y)
       IN  <<first>> \o SortSeq(S \ {first})

\* Glob that matches the prefix as a whole name, without the trailing "*"
Glob_NoWildcard(prefix) ==
  IF ~tmp THEN <<>>
  ELSE IF prefix = <<>> THEN <<TempDirPath>>
  ELSE SortSeq({n \in tdir : GlobMatch(prefix, n)})

\* filepath.Glob(filepath.Join(os.TempDir(), prefix) + "*"): the sorted paths
\* that match.  With an empty prefix the pattern is the temp directory's own
\* path followed by "*", which matches the temp directory, not its entries.
Glob(prefix) ==
  IF ~tmp THEN <<>>
  ELSE IF prefix = <<>> THEN <<TempDirPath>>
  ELSE SortSeq({n \in tdir : GlobMatch(prefix \o <<"*">>, n)})

\* os.Remove(path) succeeds
RemoveOk(path, d, t) ==
  /\ path \notin stuck
  /\ t
  /\ IF path = TempDirPath THEN d = {} ELSE path \in d

\* the loop of cleanupStaleTempfiles going on after a failed os.Remove
RECURSIVE SweepRun_Continue(_, _, _, _, _)
SweepRun_Continue(list, d, t, log, err) ==
  IF list = <<>> THEN [dir |-> d, tmp |-> t, err |-> err, log |-> log]
  ELSE LET path == Head(list)
       IN  IF RemoveOk(path, d, t)
           THEN SweepRun_Continue(Tail(list),
                         IF path = TempDirPath THEN d ELSE d \ {path},
                         IF path = TempDirPath THEN FALSE ELSE t,
                         Append(log, [path |-> path, ok |-> TRUE]), err)
           ELSE SweepRun_Continue(Tail(list), d, t,
                         Append(log, [path |-> path, ok |-> FALSE]), "err")

\* the loop of cleanupStaleTempfiles over the paths list: the directory, the
\* error and the os.Remove calls made when it returns
RECURSIVE SweepRun(_, _, _, _, _)
SweepRun(list, d, t, log, err) ==
  IF list = <<>> THEN [dir |-> d, tmp |-> t, err |-> err, log |-> log]
  ELSE LET path == Head(list)
       IN  IF RemoveOk(path, d, t)
           THEN SweepRun(Tail(list),
                         IF path = TempDirPath THEN d ELSE d \ {path},
                         IF path = TempDirPath THEN FALSE ELSE t,
                         Append(log, [path |-> path, ok |-> TRUE]), err)
           ELSE [dir |-> d, tmp |-> t, err |-> "err",
                 log |-> Append(log, [path |-> path, ok |-> FALSE])]

\* ---- tempFile: newTempFile, cleanupStaleTempfiles, Close ----

\* a tempFile: name of its file, t.File # nil, the descriptor is open,
\* t.mutex, and what happened to it so far: File.Close calls, os.Remove calls
\* of Close and those that succeeded, Close calls returned and those that
\* returned an error, a Close removed the file and returned nil, a fault of
\* the file system or a sweep interfered, a Close was called while another
\* was in progress
NewFile(n) ==
  [name |-> n, file |-> TRUE, fdOpen |-> TRUE, mutex |-> NoCaller,
   fcloses |-> 0, rms |-> 0, rmOk |-> 0, rets |-> 0, fails |-> 0,
   released |-> FALSE, fault |-> FALSE, raced |-> FALSE]

\* newTempFile(prefix)
NewTempFile(prefix) ==
  /\ tcalls < MaxCalls
  /\ tcalls' = tcalls + 1
  /\ \/ /\ tlast' = [NoTempResult EXCEPT !.op = "New", !.prefix = prefix, !.err = "err"]
        /\ UNCHANGED <<tdir, tf>>
     \/ /\ tmp
        /\ \E n \in TempNames(prefix) \ tdir :
             /\ tdir' = tdir \cup {n}
             /\ tf' = Append(tf, NewFile(n))
        /\ tlast' = [NoTempResult EXCEPT !.op = "New", !.prefix = prefix,
                                         !.id = Len(tf) + 1]
  /\ UNCHANGED <<svars, tmp, stuck, tpc, tloc>>

\* cleanupStaleTempfiles(prefix)
CleanupStaleTempfiles(prefix) ==
  /\ tcalls < MaxCalls
  /\ tcalls' = tcalls + 1
  /\ LET r == SweepRun(Glob(prefix), tdir, tmp, <<>>, "nil")
     IN  /\ tdir' = r.dir
         /\ tmp' = r.tmp
         /\ tlast' = [op |-> "Sweep", id |-> 0, prefix |-> prefix,
                      err |-> r.err, log |-> r.log]
         /\ tf' = [i \in DOMAIN tf |->
                     IF tf[i].file /\ tf[i].name \in tdir \ r.dir
                     THEN [tf[i] EXCEPT !.fault = TRUE] ELSE tf[i]]
  /\ UNCHANGED <<svars, stuck, tpc, tloc>>

\* caller c calls Close on the tempFile tf[i]
CloseCall(c, i) ==
  /\ tpc[c] = "idle"
  /\ tcalls < MaxCalls
  /\ i \in DOMAIN tf
  /\ tf' = [tf EXCEPT ![i].raced =
              @ \/ \E d \in Callers : tpc[d] # "idle" /\ tloc[d] = i]
  /\ tpc' = [tpc EXCEPT ![c] = "Wait"]
  /\ tloc' = [tloc EXCEPT ![c] = i]
  /\ tcalls' = tcalls + 1
  /\ UNCHANGED <<svars, tdir, tmp, stuck, tlast>>

\* CloseLock without the mutex
CloseLock_NoMutex(c) ==
  /\ tpc[c] = "Wait"
  /\ tf' = [tf EXCEPT ![tloc[c]].mutex = c]
  /\ tpc' = [tpc EXCEPT ![c] = "Close"]
  /\ UNCHANGED <<svars, tdir, tmp, stuck, tloc, tcalls, tlast>>

\* t.mutex.Lock()
CloseLock(c) ==
  /\ tpc[c] = "Wait"
  /\ tf[tloc[c]].mutex = NoCaller
  /\ tf' = [tf EXCEPT ![tloc[c]].mutex = c]
  /\ tpc' = [tpc EXCEPT ![c] = "Close"]
  /\ UNCHANGED <<svars, tdir, tmp, stuck, tloc, tcalls, tlast>>

\* Close returns err to caller c and unlocks
CloseReturn(c, i, f, err) ==
  /\ tf' = [tf EXCEPT ![i] = [f EXCEPT !.mutex = NoCaller, !.rets = @ + 1,
                                       !.fails = IF err = "nil" THEN @ ELSE @ + 1]]
  /\ tlast' = [NoTempResult EXCEPT !.op = "Close", !.id = i, !.err = err]
  /\ tpc' = [tpc EXCEPT ![c] = "idle"]
  /\ tloc' = [tloc EXCEPT ![c] = 0]

\* if t.File != nil { t.File.Close() ... }: os.File.Close gives up the
\* descriptor whether or not it reports an error, and fails on a file that
\* was closed before
CloseFile(c) ==
  /\ tpc[c] = "Close"
  /\ LET i == tloc[c]
         f == tf[i]
     IN  IF ~f.file
         THEN CloseReturn(c, i, f, "nil")
         ELSE \E ok \in (IF f.fdOpen THEN {TRUE, FALSE} ELSE {FALSE}) :
                LET g == [f EXCEPT !.fdOpen = FALSE, !.fcloses = @ + 1,
                                   !.fault = @ \/ (f.fdOpen /\ ~ok)]
                IN  IF ok
                    THEN /\ tf' = [tf EXCEPT ![i] = g]
                         /\ tpc' = [tpc EXCEPT ![c] = "Remove"]
                         /\ UNCHANGED <<tloc, tlast>>
                    ELSE CloseReturn(c, i, g, "err")
  /\ UNCHANGED <<svars, tdir, tmp, stuck, tcalls>>

\* CloseRemove that leaves t.File set after the file was removed
CloseRemove_KeepFile(c) ==
  /\ tpc[c] = "Remove"
  /\ LET i == tloc[c]
         f == [tf[i] EXCEPT !.rms = @ + 1]
     IN  IF RemoveOk(f.name, tdir, tmp)
         THEN /\ tdir' = tdir \ {f.name}
              /\ CloseReturn(c, i, [f EXCEPT !.rmOk = @ + 1,
                                             !.released = TRUE], "nil")
         ELSE /\ tdir' = tdir
              /\ CloseReturn(c, i, [f EXCEPT !.fault = @ \/ f.name \in stuck], "err")
  /\ UNCHANGED <<svars, tmp, stuck, tcalls>>

\* os.Remove(t.File.Name()); t.File = nil
CloseRemove(c) ==
  /\ tpc[c] = "Remove"
  /\ LET i == tloc[c]
         f == [tf[i] EXCEPT !.rms = @ + 1]
     IN  IF RemoveOk(f.name, tdir, tmp)
         THEN /\ tdir' = tdir \ {f.name}
              /\ CloseReturn(c, i, [f EXCEPT !.file = FALSE, !.rmOk = @ + 1,
                                             !.released = TRUE], "nil")
         ELSE /\ tdir' = tdir
              /\ CloseReturn(c, i, [f EXCEPT !.fault = @ \/ f.name \in stuck], "err")
  /\ UNCHANGED <<svars, tmp, stuck, tcalls>>

\* the file system starts to refuse the removal of a path
Jam(path) ==
  /\ Cardinality(stuck) < MaxStuck
  /\ path \in (tdir \cup {TempDirPath}) \ stuck
  /\ stuck' = stuck \cup {path}
  /\ UNCHANGED <<svars, tdir, tmp, tf, tpc, tloc, tcalls, tlast>>

\* the cause of the failing removals is gone
Heal ==
  /\ stuck # {}
  /\ stuck' = {}
  /\ UNCHANGED <<svars, tdir, tmp, tf, tpc, tloc, tcalls, tlast>>

\* a stream on which nothing was called
StreamIdle ==
  /\ content = <<>>
  /\ mutex = NoCaller
  /\ reader = Nil
  /\ isRead = FALSE
  /\ stat = 0
  /\ offset = 0
  /\ src = [pos |-> 0, open |-> FALSE]
  /\ pc = [c \in Callers |-> "idle"]
  /\ loc = [c \in Callers |-> NoLoc]
  /\ calls = 0
  /\ dropped = FALSE
  /\ fetchLog = <<>>
  /\ heads = 0
  /\ closes = 0
  /\ last = NoResult
  /\ sk = [any |-> FALSE, off |-> 0, whence |-> SeekStart]
  /\ got = <<>>
  /\ eofs = 0
  /\ clean = TRUE

\* a process that starts with an empty temp directory
TempInit == StreamIdle /\ TempIdle

TempNext ==
  \/ \E prefix \in Prefixes : NewTempFile(prefix)
  \/ \E prefix \in Prefixes : CleanupStaleTempfiles(prefix)
  \/ \E c \in Callers, i \in 1..MaxCalls : CloseCall(c, i)
  \/ \E c \in Callers : CloseLock(c)
  \/ \E c \in Callers : CloseFile(c)
  \/ \E c \in Callers : CloseRemove(c)
  \/ \E path \in Names \cup {TempDirPath} : Jam(path)
  \/ Heal

TempSpec == TempInit /\ [][TempNext]_vars

\* a process that starts with stale files in the temp directory and sweeps
SweepInit ==
  /\ StreamIdle
  /\ tdir \in StaleDirs
  /\ tmp = TRUE
  /\ stuck = {}
  /\ tf = <<>>
  /\ tpc = [c \in Callers |-> "idle"]
  /\ tloc = [c \in Callers |-> 0]
  /\ tcalls = 0
  /\ tlast = NoTempResult

SweepNext ==
  \/ \E prefix \in Prefixes : tcalls < MaxSweeps /\ CleanupStaleTempfiles(prefix)
  \/ \E path \in Names \cup {TempDirPath} : Jam(path)
  \/ Heal

SweepSpec == SweepInit /\ [][SweepNext]_vars

\* ---- helpers of the properties ----

Suffix(k) == SubSeq(content, k + 1, Len(content))
IsPrefix(a, b) == Len(a) <= Len(b) /\ a = SubSeq(b, 1, Len(a))
ReadReturned == last.op = "Read"
\* caller c returns from Read in this step
ReadReturns(c) == pc[c] = "Read" /\ pc'[c] = "idle"
InBody(c) == pc[c] \in {"Read", "Seek", "SizeHead", "SizeRet"}

\* C1: after Seek(k, from-start) with k inside the object, whatever Reads came
\* before, the Reads up to the first end-of-stream return exactly
\* content[k..], as a fresh stream positioned at k would (no transport fault
\* since the Seek).
C1_SeekThenReadToEnd ==
  (/\ sk.any /\ sk.whence = SeekStart /\ sk.off \in 0..Len(content)
   /\ clean /\ ReadReturned /\ last.err = "EOF" /\ eofs = 1)
  => got = Suffix(sk.off)

\* C2: on a stream that was never Seeked and met no transport fault, the bytes
\* returned so far are a prefix of the object, end-of-stream is reported at
\* most once however long the caller goes on reading, and when it has been
\* reported the bytes returned are the whole object.
C2_SequentialReadsOnceEOF ==
  (~sk.any /\ clean)
  => /\ IsPrefix(got, content)
     /\ eofs <= 1
     /\ (eofs >= 1 => got = content)

\* C3: after every Read that returned end-of-stream or an error no handle is
\* open and Close has been called as often as getObject succeeded.
C3_TerminalReadClosesOnce ==
  (ReadReturned /\ last.err # "nil") => (~src.open /\ closes = Opens)

\* C4: when the callers have stopped calling, no handle is open.
C4_NoHandleLeaked ==
  dropped => ~src.open

\* C5: a Seek whose whence is not from-start is either rejected with an error
\* or leaves r.offset as it was.
C5_RelativeSeekRejectedOrNoOp ==
  [][\A c \in Callers :
       (pc[c] = "Seek" /\ pc'[c] = "idle" /\ loc[c].whence # SeekStart)
       => (last'.err # "nil" \/ offset' = offset)]_vars

\* C6: after a Read that returned an error other than end-of-stream there is
\* no active fetch, and the Read that retries it issues a new getObject at
\* r.offset.
C6_FailedReadLeavesNoActiveFetch ==
  [][/\ (ReadReturned' /\ last'.err = "err") => ~isRead'
     /\ \A c \in Callers :
          (ReadReturns(c) /\ ReadReturned /\ last.err = "err")
          => /\ Len(fetchLog') = Len(fetchLog) + 1
             /\ fetchLog'[Len(fetchLog')].off = offset]_vars

\* C7: a Read that has no active fetch and whose getObject fails returns
\* (0, err) and leaves r.offset, r.isRead, r.reader and the byte source as
\* they were; every Read without an active fetch calls getObject at r.offset.
C7_FetchFailureChangesNothing ==
  [][\A c \in Callers :
       (ReadReturns(c) /\ ~isRead)
       => /\ Len(fetchLog') = Len(fetchLog) + 1
          /\ fetchLog'[Len(fetchLog')].off = offset
          /\ ~fetchLog'[Len(fetchLog')].ok
             => /\ last' = [op |-> "Read", n |-> 0, err |-> "err", sn |-> 0]
                /\ UNCHANGED <<offset, isRead, reader, src, closes>>]_vars

\* C7 witness: a fetch failed and the next Read fetched again at that offset.
C7_Witness ==
  /\ Len(fetchLog) >= 2
  /\ ~fetchLog[1].ok
  /\ fetchLog[2].off = fetchLog[1].off
  /\ ~sk.any

C9_SizeDisturbsNothing ==
  [][\A c \in Callers :
       (pc'[c] # pc[c] /\ (pc'[c] = "SizeHead" \/ pc[c] \in {"SizeHead", "SizeRet"}))
       => /\ UNCHANGED <<offset, isRead, reader, src, fetchLog, closes, got, eofs>>
          /\ heads' = IF pc[c] = "SizeHead" THEN heads + 1 ELSE heads]_vars

\* C9 witness: Size returned while a fetch is active in mid-stream.
C9_Witness ==
  /\ last.op = "Size" /\ last.err = "nil"
  /\ isRead /\ src.open /\ Len(got) > 0 /\ src.pos < Len(content)

\* C10: at most one caller is inside the body of Read, Seek or Size.
C10_MutualExclusion ==
  Cardinality({c \in Callers : InBody(c)}) <= 1

\* the offset at which the fetch behind r.reader started
FetchStart ==
  LET ok == {i \in DOMAIN fetchLog : fetchLog[i].ok}
  IN  fetchLog[CHOOSE i \in ok : \A j \in ok : j <= i].off

\* C16: a Seek to a negative offset returns an error, and r.offset is never
\* negative.
C16_NegativeSeekRejected ==
  /\ offset >= 0
  /\ (last.op = "Seek" /\ last.n < 0) => last.err # "nil"

\* C18: the stream is lazy.  Before the first call no getObject and no
\* headObject was issued, no step of Seek issues one, and the Read that finds
\* no getObject issued yet issues exactly one, at the offset of the latest
\* Seek (0 when there was none).
C18_LazyFetch ==
  /\ [](calls = 0 => (fetchLog = <<>> /\ heads = 0))
  /\ [][/\ \A c \in Callers :
            (pc'[c] # pc[c] /\ (pc'[c] = "Seek" \/ pc[c] = "Seek"))
            => UNCHANGED <<fetchLog, heads>>
        /\ \A c \in Callers :
            (ReadReturns(c) /\ fetchLog = <<>>)
            => /\ Len(fetchLog') = 1
               /\ fetchLog'[1].off = sk.off]_vars

\* C18 witness: after a Seek to a position inside the object the first Read
\* has fetched once, at that position.
C18_Witness ==
  /\ sk.any /\ sk.off > 0
  /\ fetchLog = <<[off |-> sk.off, ok |-> TRUE]>>
  /\ ReadReturned

\* C19: right after a Seek has returned there is no active fetch and no open
\* handle, and whenever a fetch is active it started at the offset of the
\* latest Seek.
C19_SeekInvalidatesFetch ==
  /\ last.op = "Seek" => (~isRead /\ ~src.open)
  /\ (isRead /\ sk.any) => FetchStart = sk.off

\* C20: getObject succeeds at most once in the life of a stream, and once
\* r.isRead is set no step clears it.
C20_AtMostOneFetch ==
  /\ [](Opens <= 1)
  /\ [][isRead => isRead']_vars

\* C20 witness: the one fetch was made, its handle was closed by a terminal
\* Read, a Seek followed, and a further Read returned without a new fetch.
C20_Witness ==
  /\ Opens = 1 /\ isRead /\ sk.any
  /\ closes >= 2 /\ ReadReturned

\* ---- tempFile properties ----

\* caller c returns from tempFile.Close in this step
CloseReturns(c) == tpc[c] \in {"Close", "Remove"} /\ tpc'[c] = "idle"
\* this step is a whole call of cleanupStaleTempfiles
Sweeps == tcalls' = tcalls + 1 /\ tlast'.op = "Sweep"
\* a prefix that is a plain, non-empty piece of a file name
Literal(prefix) == prefix # <<>> /\ \A k \in 1..Len(prefix) : prefix[k] # "*"
NoRemoveFailed(log) == \A k \in 1..Len(log) : log[k].ok

\* C11: the Close that returns nil after removing the file leaves no entry of
\* that name, and every later Close of that tempFile returns nil without
\* calling File.Close or os.Remove and without touching the directory.
C11_CloseIdempotent ==
  [][\A c \in Callers :
       CloseReturns(c) =>
         LET i == tloc[c]
         IN  /\ (tf'[i].released /\ ~tf[i].released) => tf[i].name \notin tdir'
             /\ tf[i].released
                => /\ tlast'.err = "nil"
                   /\ tdir' = tdir
                   /\ tf'[i].fcloses = tf[i].fcloses
                   /\ tf'[i].rms = tf[i].rms]_vars

\* C11 witness: a tempFile was closed twice; the first Close removed the
\* file, the second returned nil.
C11_Witness ==
  \E i \in DOMAIN tf :
    /\ tf[i].released /\ tf[i].rets >= 2 /\ tf[i].fails = 0
    /\ tf[i].fcloses = 1 /\ tf[i].name \notin tdir
    /\ tlast.op = "Close" /\ tlast.id = i /\ tlast.err = "nil"

\* C12: after a Close that failed the tempFile still holds its file, and a
\* Close that returns once nothing makes removals fail any more has removed
\* the file and returns nil.
C12_FailedCloseRetrySafe ==
  [][\A c \in Callers :
       CloseReturns(c) =>
         LET i == tloc[c]
         IN  /\ tlast'.err # "nil" => tf'[i].file
             /\ (tf[i].fails > 0 /\ stuck = {})
                => (tlast'.err = "nil" /\ tf[i].name \notin tdir')]_vars

C14_SweepFailFast ==
  [][(Sweeps /\ ~NoRemoveFailed(tlast'.log))
     => LET g == Glob(tlast'.prefix)
            log == tlast'.log
            k == Len(log)
        IN  /\ tlast'.err = "err"
            /\ k <= Len(g)
            /\ \A j \in 1..k : log[j] = [path |-> g[j], ok |-> (j < k)]
            /\ \A j \in 1..(k - 1) : g[j] \notin tdir'
            /\ \A j \in k..Len(g) : g[j] = TempDirPath \/ g[j] \in tdir']_vars

\* C14 witness: a sweep failed at an entry and left a matching entry that
\* sorts after the failing one and could have been removed.
C14_Witness ==
  /\ tlast.op = "Sweep" /\ tlast.err = "err"
  /\ Len(tlast.log) >= 1
  /\ \E n \in tdir :
       /\ GlobMatch(tlast.prefix \o <<"*">>, n)
       /\ Less(tlast.log[Len(tlast.log)].path, n)
       /\ n \notin stuck

\* C15: the file of a tempFile that still holds it is removed by nothing but
\* that tempFile's Close; no Close calls os.Remove on a path that is already
\* gone; and the os.Remove of Close succeeds unless the file system refuses.
C15_RemovedExactlyOnce ==
  [][/\ Sweeps => \A i \in DOMAIN tf :
                    (tf[i].file /\ tf[i].name \in tdir) => tf[i].name \in tdir'
     /\ \A c \in Callers :
          (tpc[c] = "Remove" /\ tpc'[c] = "idle")
          => /\ tf[tloc[c]].name \in tdir
             /\ tf[tloc[c]].name \notin stuck => tlast'.err = "nil"]_vars

====
